---- MODULE Spec2Model ----
(***************************************************************************)
(* Model of dash_app.py, the Moon Missions Records Dashboard.              *)
(*                                                                         *)
(* Text is modelled as a sequence of one-character strings, so that        *)
(* str.contains, str.split, str.lower, str() and the string comparison of  *)
(* the year filter are computed on characters as the code computes them.   *)
(* A missing cell (NaN) of a text column is the sentinel NaN, a missing    *)
(* Launch Date (NaT / np.nan) is the sentinel NaT.                         *)
(***************************************************************************)
EXTENDS Integers, Sequences, FiniteSets

VARIABLES
    pc,                 \* "load" | "serving" | "crashed" | "date_in" | "date_done"
    raw,                \* the rows of data.csv as read by pd.read_csv
    data,               \* the module-level DataFrame `data`
    fail,               \* the module-level DataFrame `fail`
    allowed_fails,      \* the module-level array `allowed_fails`
    min_allowed_year,   \* module-level
    max_allowed_year,   \* module-level
    loaded,             \* history: the module-level values right after startup
    req,                \* the request (callback arguments) handled last
    resp                \* what the callback handling req returned, or that it raised

vars == <<pc, raw, data, fail, allowed_fails, min_allowed_year, max_allowed_year,
          loaded, req, resp>>

\* The largest number of rows of data.csv that is explored.
MaxRows == 3

(***************************************************************************)
(* Text constants                                                          *)
(***************************************************************************)
AllCountries == <<"A","l","l"," ","C","o","u","n","t","r","i","e","s">>
UnitedStates == <<"U","n","i","t","e","d"," ","S","t","a","t","e","s">>
SovietUnion == <<"S","o","v","i","e","t"," ","U","n","i","o","n">>
Japan == <<"J","a","p","a","n">>
EuropeanUnion == <<"E","u","r","o","p","e","a","n"," ","U","n","i","o","n">>
China == <<"C","h","i","n","a">>
India == <<"I","n","d","i","a">>
Luxembourg == <<"L","u","x","e","m","b","o","u","r","g">>
Israel == <<"I","s","r","a","e","l">>
SouthKorea == <<"S","o","u","t","h"," ","K","o","r","e","a">>
Italy == <<"I","t","a","l","y">>
UAE == <<"U","A","E">>
Russia == <<"R","u","s","s","i","a">>

\* dash_app.py line 55
allowed_countries ==
    << AllCountries, UnitedStates, SovietUnion, Japan, EuropeanUnion, China, India,
       Luxembourg, Israel, SouthKorea, Italy, UAE, Russia >>

csv == <<"c","s","v">>
json == <<"j","s","o","n">>
excel == <<"e","x","c","e","l">>

\* dash_app.py line 56
allowed_file_formats == << csv, json, excel >>

MoonlandingCsv == <<"M","o","o","n","l","a","n","d","i","n","g",".","c","s","v">>
MoonlandingJson == <<"M","o","o","n","l","a","n","d","i","n","g",".","j","s","o","n">>
MoonlandingXlsx == <<"M","o","o","n","l","a","n","d","i","n","g",".","x","l","s","x">>

\* the literal 'fail' of line 79
Fail == <<"f","a","i","l">>

\* Values of the cells and of the requests that are explored.
LaunchFailure == <<"L","a","u","n","c","h"," ","f","a","i","l","u","r","e">>
PartialFailure == <<"P","a","r","t","i","a","l"," ","f","a","i","l","u","r","e">>
Successful == <<"S","u","c","c","e","s","s","f","u","l">>
Canada == <<"C","a","n","a","d","a">>
UAEItaly == <<"U","A","E","/","I","t","a","l","y">>
Lander == <<"L","a","n","d","e","r">>
Orbiter == <<"O","r","b","i","t","e","r">>
Launch == <<"L","a","u","n","c","h">>
Partial == <<"P","a","r","t","i","a","l">>
Spacecraft == <<"S","p","a","c","e","c","r","a","f","t">>
CSV == <<"C","S","V">>
xml == <<"x","m","l">>

\* A missing cell of a text column, and Python's None as a callback argument.
NaN == << "NaN" >>
None == << "None" >>
\* A missing Launch Date.
NaT == [y |-> 0, m |-> 0, d |-> 0, h |-> 0]

(***************************************************************************)
(* Sequences and text                                                      *)
(***************************************************************************)
Range(s) == { s[i] : i \in DOMAIN s }

IsIn(x, s) == \E i \in DOMAIN s : s[i] = x

RECURSIVE SumSeq(_)
SumSeq(s) == IF s = << >> THEN 0 ELSE Head(s) + SumSeq(Tail(s))

\* The rows of df selected by a boolean mask, in order: df[mask].
RECURSIVE Mask(_, _)
Mask(df, mask) ==
    IF df = << >> THEN << >>
    ELSE (IF Head(mask) THEN << Head(df) >> ELSE << >>) \o Mask(Tail(df), Tail(mask))

\* Series.unique(): the distinct values in order of first appearance
\* (a missing value is one of them).
RECURSIVE Unique(_)
Unique(s) ==
    IF s = << >> THEN << >>
    ELSE LET u == Unique(SubSeq(s, 1, Len(s) - 1))
             x == s[Len(s)]
         IN  IF IsIn(x, u) THEN u ELSE Append(u, x)

\* How often v occurs in s.
Occurrences(s, v) == Cardinality({ i \in DOMAIN s : s[i] = v })

\* Series.value_counts(): <<value, count>> for each distinct value that is not
\* missing, by descending count.  Equal counts keep the order of first
\* appearance, which is what the sort does on the few values explored here.
ValueCounts(s, missing) ==
    LET u == Unique(SelectSeq(s, LAMBDA v : v # missing))
        n == Len(u)
        cnt(i) == Occurrences(s, u[i])
        rank(i) == Cardinality({ j \in 1..n : cnt(j) > cnt(i) })
                   + Cardinality({ j \in 1..(i - 1) : cnt(j) = cnt(i) }) + 1
    IN  [ k \in 1..n |->
            LET i == CHOOSE j \in 1..n : rank(j) = k IN << u[i], cnt(i) >> ]

\* str.contains(pat) on one cell, for a pattern of letters and blanks (on which
\* the regular-expression search is the substring search): pat occurs in s.
Contains(s, pat) ==
    \E i \in 0..(Len(s) - Len(pat)) : SubSeq(s, i + 1, i + Len(pat)) = pat

\* Series.str.contains(pat) on one cell of a column: NaN for a missing cell.
StrContains(s, pat) ==
    IF s = NaN THEN "nan" ELSE IF Contains(s, pat) THEN "true" ELSE "false"

\* name.split(' ')[0]: the text before the first blank.
RECURSIVE FirstWord(_)
FirstWord(s) ==
    IF s = << >> \/ Head(s) = " " THEN << >> ELSE << Head(s) >> \o FirstWord(Tail(s))

LowerChar(c) ==
    CASE c = "C" -> "c" [] c = "S" -> "s" [] c = "V" -> "v" [] c = "J" -> "j"
      [] c = "O" -> "o" [] c = "N" -> "n" [] c = "E" -> "e" [] c = "X" -> "x"
      [] c = "L" -> "l" [] c = "M" -> "m" [] OTHER -> c

\* str.lower()
Lower(s) == [ i \in DOMAIN s |-> LowerChar(s[i]) ]

DigitChar(n) ==
    CASE n = 0 -> "0" [] n = 1 -> "1" [] n = 2 -> "2" [] n = 3 -> "3" [] n = 4 -> "4"
      [] n = 5 -> "5" [] n = 6 -> "6" [] n = 7 -> "7" [] n = 8 -> "8" [] n = 9 -> "9"

\* str(n) of a natural number, and strftime("%Y") of a year from 1000 on.
RECURSIVE Str(_)
Str(n) == IF n < 10 THEN << DigitChar(n) >> ELSE Append(Str(n \div 10), DigitChar(n % 10))

CharCode(c) ==
    CASE c = "0" -> 0 [] c = "1" -> 1 [] c = "2" -> 2 [] c = "3" -> 3 [] c = "4" -> 4
      [] c = "5" -> 5 [] c = "6" -> 6 [] c = "7" -> 7 [] c = "8" -> 8 [] c = "9" -> 9

\* a <= b on Python strings of digits: character by character, a proper prefix
\* being the smaller.
RECURSIVE StrLE(_, _)
StrLE(a, b) ==
    IF a = << >> THEN TRUE
    ELSE IF b = << >> THEN FALSE
    ELSE IF Head(a) = Head(b) THEN StrLE(Tail(a), Tail(b))
    ELSE CharCode(Head(a)) < CharCode(Head(b))

(***************************************************************************)
(* Dates                                                                   *)
(***************************************************************************)
\* the cutoff of line 43 and the shift of line 44
CutoffYear == 2023
Century == 100

IsLeap(y) == (y % 4 = 0 /\ y % 100 # 0) \/ y % 400 = 0

DaysIn(y, m) ==
    IF m = 2 THEN (IF IsLeap(y) THEN 29 ELSE 28)
    ELSE IF m \in {4, 6, 9, 11} THEN 30 ELSE 31

ValidDate(y, m, d) == m \in 1..12 /\ d \in 1..DaysIn(y, m)

\* a <= b on timestamps
DateLE(a, b) ==
    \/ a.y < b.y
    \/ a.y = b.y /\ a.m < b.m
    \/ a.y = b.y /\ a.m = b.m /\ a.d < b.d
    \/ a.y = b.y /\ a.m = b.m /\ a.d = b.d /\ a.h <= b.h

\* The whole hours a pd.Timestamp can hold (Timestamp.min, Timestamp.max).
TimestampMin == [y |-> 1677, m |-> 9, d |-> 21, h |-> 1]
TimestampMax == [y |-> 2262, m |-> 4, d |-> 11, h |-> 23]

RECURSIVE DigitsValue(_)
DigitsValue(ds) ==
    IF ds = << >> THEN 0 ELSE 10 * DigitsValue(SubSeq(ds, 1, Len(ds) - 1)) + ds[Len(ds)]

\* The year a date parser reads from the year's digits: four digits as written, two
\* digits in the century the parser's pivot gives (below the pivot 20yy, else 19yy).
ParsedYear(digits, pivot) ==
    IF Len(digits) = 2
    THEN (IF DigitsValue(digits) < pivot THEN 2000 ELSE 1900) + DigitsValue(digits)
    ELSE DigitsValue(digits)

\* The pivots of the parsers pd.to_datetime may use: strptime's %y (69) and
\* dateutil's fifty-year window, which moves with the day the program is run.
Pivots == {69, 73}

\* pd.to_datetime(date) of one cell [d, m, y (digits), h]: the timestamp, or a
\* ValueError (no such calendar date, or outside what a Timestamp holds).
ToDatetime(date, pivot) ==
    LET yy == ParsedYear(date.y, pivot)
        ts == [y |-> yy, m |-> date.m, d |-> date.d, h |-> date.h]
    IN  IF ValidDate(yy, date.m, date.d) /\ DateLE(TimestampMin, ts) /\ DateLE(ts, TimestampMax)
        THEN [ok |-> TRUE, ts |-> ts]
        ELSE [ok |-> FALSE, ts |-> NaT]

\* Timestamp.replace(year=yy): a ValueError when the day does not exist in yy.
ReplaceYear(ts, yy) ==
    IF ValidDate(yy, ts.m, ts.d)
    THEN [ok |-> TRUE, ts |-> [ts EXCEPT !.y = yy]]
    ELSE [ok |-> FALSE, ts |-> NaT]

\* A slip of validate_date_input: the shift is applied from the cutoff on.
validate_date_input_shifts_cutoff(date, pivot) ==
    LET parsed == ToDatetime(date, pivot)
    IN  IF ~parsed.ok THEN NaT
        ELSE IF parsed.ts.y >= CutoffYear
             THEN (LET r == ReplaceYear(parsed.ts, parsed.ts.y - Century)
                   IN  IF r.ok THEN r.ts ELSE NaT)
             ELSE parsed.ts

\* validate_date_input (lines 40-47)
validate_date_input(date, pivot) ==
    LET parsed == ToDatetime(date, pivot)
    IN  IF ~parsed.ok THEN NaT
        ELSE IF parsed.ts.y > CutoffYear
             THEN (LET r == ReplaceYear(parsed.ts, parsed.ts.y - Century)
                   IN  IF r.ok THEN r.ts ELSE NaT)
             ELSE parsed.ts

(***************************************************************************)
(* The rows and the requests that are explored                             *)
(***************************************************************************)
\* Cells of the Launch Date column: day, month, the year's digits, hour.
Date69 == [d |-> 16, m |-> 7, y |-> <<6, 9>>, h |-> 0]
Date1971 == [d |-> 31, m |-> 1, y |-> <<1, 9, 7, 1>>, h |-> 0]
Date2150 == [d |-> 2, m |-> 1, y |-> <<2, 1, 5, 0>>, h |-> 0]
DateBad == [d |-> 30, m |-> 2, y |-> <<1, 9, 6, 6>>, h |-> 0]

\* Rows of data.csv.  Outcome is never missing: line 79 stops the program then.
Rows ==
    { [date |-> Date69,   op |-> India,    mtype |-> Lander,  outcome |-> LaunchFailure],
      [date |-> Date1971, op |-> UAEItaly, mtype |-> Orbiter, outcome |-> PartialFailure],
      [date |-> DateBad,  op |-> Canada,   mtype |-> Lander,  outcome |-> PartialFailure],
      [date |-> Date2150, op |-> NaN,      mtype |-> NaN,     outcome |-> Successful] }

Datasets == UNION { [1..n -> Rows] : n \in 1..MaxRows }

\* Callback arguments.  A year bound is a number or some other value (num FALSE);
\* the slider's value is a list of bounds or None.
Num(n) == [num |-> TRUE, val |-> n]
NotANumber == [num |-> FALSE, val |-> 0]
List(items) == [none |-> FALSE, items |-> items]
NoList == [none |-> TRUE, items |-> << >>]

CountryInputs == { AllCountries, Italy, None }
StartInputs == { Num(1950), Num(1971), NotANumber }
EndInputs == { Num(1969), Num(1971), Num(2050), NotANumber }
YearInputs ==
    { List(<<s, e>>) : s \in StartInputs, e \in EndInputs }
    \cup { NoList, List(<< Num(1969) >>), List(<< Num(1969), Num(1971), Num(1971) >>) }
FailInputs == { Launch, Partial, Spacecraft, None }
FormatInputs == { CSV, json, excel, xml, None }

(***************************************************************************)
(* Startup (lines 33-83)                                                   *)
(***************************************************************************)
Column(df, col) == [ i \in DOMAIN df |-> df[i][col] ]

\* data['Launch Date'].apply(validate_date_input) (line 49)
NormalizeDates(rows, pivot) ==
    [ i \in DOMAIN rows |->
        [date |-> validate_date_input(rows[i].date, pivot), op |-> rows[i].op,
         mtype |-> rows[i].mtype, outcome |-> rows[i].outcome] ]

PresentDates(df) == { df[i].date : i \in { j \in DOMAIN df : df[j].date # NaT } }

\* data["Launch Date"].min().year and .max().year (lines 63-64)
MinYear(df) == (CHOOSE t \in PresentDates(df) : \A u \in PresentDates(df) : DateLE(t, u)).y
MaxYear(df) == (CHOOSE t \in PresentDates(df) : \A u \in PresentDates(df) : DateLE(u, t)).y

\* data[data['Outcome'].str.contains('fail')].copy() (line 79)
FailRows(df) == Mask(df, [ i \in DOMAIN df |-> Contains(df[i].outcome, Fail) ])

\* lines 80-82: the distinct failure outcomes, each cut to its first word
AllowedFails(f) ==
    LET u == Unique(Column(f, "outcome")) IN [ i \in DOMAIN u |-> FirstWord(u[i]) ]

NoSnapshot ==
    [data |-> << >>, fail |-> << >>, allowed_fails |-> << >>,
     min_allowed_year |-> 0, max_allowed_year |-> 0]

NoRequest == [handler |-> "none"]
NoResponse == [kind |-> "none"]

Init ==
    /\ pc = "load"
    /\ raw \in Datasets
    /\ data = << >>
    /\ fail = << >>
    /\ allowed_fails = << >>
    /\ min_allowed_year = 0
    /\ max_allowed_year = 0
    /\ loaded = NoSnapshot
    /\ req = NoRequest
    /\ resp = NoResponse

\* The module body up to the layout.  With no parsable Launch Date the column's
\* minimum has no year and line 63 raises: the program does not start.
Startup ==
    /\ pc = "load"
    /\ \E pivot \in Pivots :
         LET d == NormalizeDates(raw, pivot)
             f == FailRows(d)
         IN  IF PresentDates(d) = {}
             THEN /\ pc' = "crashed"
                  /\ data' = d
                  /\ UNCHANGED <<fail, allowed_fails, min_allowed_year,
                                 max_allowed_year, loaded>>
             ELSE /\ pc' = "serving"
                  /\ data' = d
                  /\ fail' = f
                  /\ allowed_fails' = AllowedFails(f)
                  /\ min_allowed_year' = MinYear(d)
                  /\ max_allowed_year' = MaxYear(d)
                  /\ loaded' = [data |-> d, fail |-> f, allowed_fails |-> AllowedFails(f),
                                min_allowed_year |-> MinYear(d),
                                max_allowed_year |-> MaxYear(d)]
    /\ UNCHANGED <<raw, req, resp>>

(***************************************************************************)
(* Chart data (lines 222-310)                                              *)
(***************************************************************************)
\* create_pie: values and names are the counts and the index of the series.
create_pie(series) ==
    [names |-> [ i \in DOMAIN series |-> series[i][1] ],
     values |-> [ i \in DOMAIN series |-> series[i][2] ]]

\* create_scatter (lines 251-257): x is the distinct Launch Dates in order of first
\* appearance, y the counts of value_counts() in its own order; the i-th point
\* is (x[i], y[i]).
create_scatter(df) ==
    LET dates == Column(df, "date")
        vc == ValueCounts(dates, NaT)
    IN  [x |-> Unique(dates), y |-> [ i \in DOMAIN vc |-> vc[i][2] ]]

\* df.groupby('Outcome')['Mission Type'].value_counts() (line 303): the count of
\* each (outcome, mission type) of df, rows with a missing mission type left out.
GroupCount(df, o, t) ==
    Cardinality({ i \in DOMAIN df : df[i].outcome = o /\ df[i].mtype = t /\ t # NaN })

\* `column in series.keys()`: the outcome is a first-level key of the series.
InSeriesKeys(df, o) == \E i \in DOMAIN df : df[i].outcome = o /\ df[i].mtype # NaN

\* A slip of create_matrix_for_heatmap: the labels are taken from the filtered rows.
create_matrix_labels_from_df(df, base) ==
    LET columns == Unique(Column(df, "outcome"))
        index == Unique(Column(df, "mtype"))
    IN  [index |-> index, columns |-> columns,
         cell |-> [ k \in Range(index) \X Range(columns) |-> GroupCount(df, k[2], k[1]) ]]

\* create_matrix_for_heatmap (lines 293-310) on df, `base` being the global data:
\* a frame of zeros labelled from base; each column whose label is a key of the
\* series gets the series' counts added, an index label the series lacks
\* becoming NaN; fillna(0) then turns those into 0.
create_matrix_for_heatmap(df, base) ==
    LET columns == Unique(Column(base, "outcome"))
        index == Unique(Column(base, "mtype"))
        added(t, o) ==
            IF InSeriesKeys(df, o)
            THEN (IF GroupCount(df, o, t) > 0
                  THEN [nan |-> FALSE, v |-> 0 + GroupCount(df, o, t)]
                  ELSE [nan |-> TRUE, v |-> 0])
            ELSE [nan |-> FALSE, v |-> 0]
        fillna(c) == IF c.nan THEN 0 ELSE c.v
    IN  [index |-> index, columns |-> columns,
         cell |-> [ k \in Range(index) \X Range(columns) |-> fillna(added(k[1], k[2])) ]]

\* create_bar: one bar per key of cd.
create_bar(keys, values) == [x |-> keys, y |-> values]

(***************************************************************************)
(* Validators (lines 312-325, 376-382)                                     *)
(***************************************************************************)
validate_country_input(value) ==
    IF IsIn(value, allowed_countries) THEN value ELSE AllCountries

Returned(pair) == [raised |-> FALSE, val |-> pair]
Raised == [raised |-> TRUE, val |-> << >>]

\* A slip of validate_year_range: only the bound that is out of range is replaced.
validate_year_range_partial(start_year, end_year, minY, maxY) ==
    IF ~start_year.num \/ ~end_year.num THEN Raised
    ELSE Returned(<< IF minY <= start_year.val /\ start_year.val <= maxY
                     THEN start_year.val ELSE minY,
                     IF minY <= end_year.val /\ end_year.val <= maxY
                     THEN end_year.val ELSE maxY >>)

\* validate_year_range (lines 319-325).  The chained comparisons are evaluated left
\* to right and `and` stops at the first false one; comparing an int with a value
\* that is no number raises TypeError.
validate_year_range(start_year, end_year, minY, maxY) ==
    IF ~start_year.num THEN Raised
    ELSE IF ~(minY <= start_year.val /\ start_year.val <= maxY)
         THEN Returned(<< minY, maxY >>)
    ELSE IF ~end_year.num THEN Raised
    ELSE IF minY <= end_year.val /\ end_year.val <= maxY
         THEN Returned(<< start_year.val, end_year.val >>)
         ELSE Returned(<< minY, maxY >>)

\* validate_year_range(*entered_years) (line 344): unpacking None, or a list that
\* is not two values long, raises TypeError.
CallValidateYearRange(entered_years, minY, maxY) ==
    IF entered_years.none \/ Len(entered_years.items) # 2 THEN Raised
    ELSE validate_year_range(entered_years.items[1], entered_years.items[2], minY, maxY)

\* validate_fail_input (lines 376-382): allowed_fails[0] raises IndexError when the
\* data has no failure outcome.
validate_fail_input(value, af) ==
    IF IsIn(value, af) THEN Returned(value)
    ELSE IF af = << >> THEN Raised
    ELSE Returned(af[1])

(***************************************************************************)
(* Callbacks (lines 341-423)                                               *)
(***************************************************************************)
NoCharts == [pie |-> << >>, scatter |-> << >>, heatmap |-> << >>]
NoRows == [pie |-> << >>, scatter |-> << >>, heatmap |-> << >>]

\* What a callback hands back: kind "charts", "bar", "download", "no_output", or
\* "raised" with the place (at) the exception left the callback from.  country and
\* years are the validated inputs, fed the rows each chart was computed from.
Response(kind, at, country, years, out, fed) ==
    [kind |-> kind, at |-> at, country |-> country, years |-> years,
     out |-> out, fed |-> fed]

\* A slip of the year filter: the end year is excluded.
YearFilter_exclusive(df, years) ==
    Mask(df, [ i \in DOMAIN df |->
                 /\ df[i].date # NaT
                 /\ StrLE(Str(years[1]), Str(df[i].date.y))
                 /\ StrLE(Str(df[i].date.y), Str(years[2]))
                 /\ Str(df[i].date.y) # Str(years[2]) ])

\* lines 348-351: strftime("%Y") of each Launch Date compared, as strings, with
\* str() of the bounds; a missing date compares False.
YearFilter(df, years) ==
    Mask(df, [ i \in DOMAIN df |->
                 /\ df[i].date # NaT
                 /\ StrLE(Str(years[1]), Str(df[i].date.y))
                 /\ StrLE(Str(df[i].date.y), Str(years[2])) ])

\* df['Operator'].str.contains(pat), one of "true", "false", "nan" per row
OperatorMask(df, pat) == [ i \in DOMAIN df |-> StrContains(df[i].op, pat) ]

\* df[mask] raises ValueError for a mask that holds NaN.
MaskRaises(mask) == IsIn("nan", mask)
MaskRows(df, mask) == Mask(df, [ i \in DOMAIN mask |-> mask[i] = "true" ])

Charts(pie_rows, rows, base) ==
    [pie |-> create_pie(ValueCounts(Column(pie_rows, "outcome"), NaN)),
     scatter |-> create_scatter(rows),
     heatmap |-> create_matrix_for_heatmap(rows, base)]

\* get_charts_by_country (lines 341-373) on the module-level data d and year range
\* minY..maxY.  The try block (the year filter) does not raise on a column of
\* timestamps; what follows it is outside the try.
ChartsResponse(d, minY, maxY, entered_country, entered_years) ==
    LET country == validate_country_input(entered_country)
        years == CallValidateYearRange(entered_years, minY, maxY)
    IN  IF years.raised
        THEN Response("raised", "validate_year_range", country, << >>, NoCharts, NoRows)
        ELSE LET year_df == YearFilter(d, years.val)
                 mask == OperatorMask(year_df, country)
                 country_df == MaskRows(year_df, mask)
             IN  IF country = AllCountries
                 THEN Response("charts", "", country, years.val,
                               Charts(year_df, year_df, d),
                               [pie |-> year_df, scatter |-> year_df, heatmap |-> year_df])
                 ELSE IF MaskRaises(mask)
                 THEN Response("raised", "country filter", country, years.val,
                               NoCharts, NoRows)
                 ELSE Response("charts", "", country, years.val,
                               Charts(country_df, country_df, d),
                               [pie |-> country_df, scatter |-> country_df,
                                heatmap |-> country_df])

\* A slip of the failure count: the operator must equal the country.
CountryCount_exact(df, country) ==
    Cardinality({ i \in DOMAIN df : df[i].op = country })

\* len(choosen_fail[choosen_fail['Operator'].str.contains(country)]) (line 401)
CountryCount(df, country) ==
    Len(MaskRows(df, OperatorMask(df, country)))

\* get_bar_chart (lines 389-404) on the module-level fail f and allowed_fails af
BarResponse(f, af, value) ==
    LET entered_fail == validate_fail_input(value, af)
    IN  IF entered_fail.raised
        THEN Response("raised", "validate_fail_input", << >>, << >>, << >>, << >>)
        ELSE LET choosen_fail ==
                     Mask(f, [ i \in DOMAIN f |-> Contains(f[i].outcome, entered_fail.val) ])
             IN  IF MaskRaises(OperatorMask(choosen_fail, AllCountries))
                 THEN Response("raised", "country count", entered_fail.val, << >>,
                               << >>, << >>)
                 ELSE Response("bar", "", entered_fail.val, << >>,
                               create_bar(allowed_countries,
                                          [ i \in DOMAIN allowed_countries |->
                                              CountryCount(choosen_fail, allowed_countries[i]) ]),
                               choosen_fail)

\* get_download (lines 412-423): None has no lower(); the whole of data is sent
\* under the format's file name; any other format gives None.
DownloadResponse(d, entered_file_format) ==
    IF entered_file_format = None
    THEN Response("raised", "lower", << >>, << >>, << >>, << >>)
    ELSE IF ~IsIn(Lower(entered_file_format), allowed_file_formats)
    THEN Response("no_output", "", << >>, << >>, << >>, << >>)
    ELSE Response("download", "", << >>, << >>,
                  IF Lower(entered_file_format) = csv THEN MoonlandingCsv
                  ELSE IF Lower(entered_file_format) = json THEN MoonlandingJson
                  ELSE MoonlandingXlsx,
                  d)

\* A slip of get_charts_by_country: the filtered frame is assigned to the global.
get_charts_by_country_rebinds(entered_country, entered_years) ==
    /\ pc = "serving"
    /\ req' = [handler |-> "get_charts_by_country", country |-> entered_country,
               years |-> entered_years]
    /\ resp' = ChartsResponse(data, min_allowed_year, max_allowed_year,
                              entered_country, entered_years)
    /\ data' = IF resp'.kind = "charts" THEN resp'.fed.heatmap ELSE data
    /\ UNCHANGED <<pc, raw, fail, allowed_fails, min_allowed_year,
                   max_allowed_year, loaded>>

get_charts_by_country(entered_country, entered_years) ==
    /\ pc = "serving"
    /\ req' = [handler |-> "get_charts_by_country", country |-> entered_country,
               years |-> entered_years]
    /\ resp' = ChartsResponse(data, min_allowed_year, max_allowed_year,
                              entered_country, entered_years)
    /\ UNCHANGED <<pc, raw, data, fail, allowed_fails, min_allowed_year,
                   max_allowed_year, loaded>>

get_bar_chart(entered_fail) ==
    /\ pc = "serving"
    /\ req' = [handler |-> "get_bar_chart", value |-> entered_fail]
    /\ resp' = BarResponse(fail, allowed_fails, entered_fail)
    /\ UNCHANGED <<pc, raw, data, fail, allowed_fails, min_allowed_year,
                   max_allowed_year, loaded>>

get_download(entered_file_format) ==
    /\ pc = "serving"
    /\ req' = [handler |-> "get_download", format |-> entered_file_format]
    /\ resp' = DownloadResponse(data, entered_file_format)
    /\ UNCHANGED <<pc, raw, data, fail, allowed_fails, min_allowed_year,
                   max_allowed_year, loaded>>

Charts_request == \E c \in CountryInputs, ys \in YearInputs : get_charts_by_country(c, ys)
Bar_request == \E v \in FailInputs : get_bar_chart(v)
Download_request == \E f \in FormatInputs : get_download(f)

Next == Startup \/ Charts_request \/ Bar_request \/ Download_request

Spec == Init /\ [][Next]_vars

(***************************************************************************)
(* validate_date_input on its own: one cell of the Launch Date column      *)
(***************************************************************************)
YearTexts ==
    { <<2, 3>>, <<2, 4>>, <<6, 8>>, <<6, 9>>, <<7, 2>>, <<9, 9>>,
      <<1, 6, 7, 7>>, <<1, 9, 0, 0>>, <<1, 9, 6, 9>>, <<2, 0, 2, 3>>, <<2, 0, 2, 4>>,
      <<2, 0, 9, 6>>, <<2, 1, 0, 0>>, <<2, 1, 0, 4>>, <<2, 1, 2, 3>>, <<2, 1, 2, 4>>,
      <<2, 2, 0, 0>>, <<2, 2, 6, 2>>, <<2, 2, 6, 3>>, <<2, 4, 0, 0>> }

DateTexts ==
    { [d |-> dd, m |-> mm, y |-> yy, h |-> hh] :
        dd \in {1, 28, 29, 31}, mm \in {1, 2, 4, 9, 13}, yy \in YearTexts, hh \in {0, 12} }

InitDate ==
    /\ pc = "date_in"
    /\ raw = << >>
    /\ data = << >>
    /\ fail = << >>
    /\ allowed_fails = << >>
    /\ min_allowed_year = 0
    /\ max_allowed_year = 0
    /\ loaded = NoSnapshot
    /\ req \in { [handler |-> "validate_date_input", date |-> t] : t \in DateTexts }
    /\ resp = NoResponse

\* One call of validate_date_input; parsed records what pd.to_datetime gave.
ValidateDate ==
    /\ pc = "date_in"
    /\ pc' = "date_done"
    /\ \E pivot \in Pivots :
         resp' = [kind |-> "date", parsed |-> ToDatetime(req.date, pivot),
                  out |-> validate_date_input(req.date, pivot)]
    /\ UNCHANGED <<raw, data, fail, allowed_fails, min_allowed_year,
                   max_allowed_year, loaded, req>>

NextDate == ValidateDate

SpecDate == InitDate /\ [][NextDate]_vars

(***************************************************************************)
(* Properties                                                              *)
(***************************************************************************)
\* pat occurs in s, stated on positions.
Occurs(s, pat) ==
    \E i \in 0..Len(s) :
        /\ i + Len(pat) <= Len(s)
        /\ \A k \in 1..Len(pat) : s[i + k] = pat[k]

RECURSIVE SumOver(_, _)
SumOver(f, S) ==
    IF S = {} THEN 0 ELSE LET k == CHOOSE k \in S : TRUE IN f[k] + SumOver(f, S \ {k})

IsChartsRequest == pc = "serving" /\ req.handler = "get_charts_by_country"
IsBarRequest == pc = "serving" /\ req.handler = "get_bar_chart"

\* C1: a launch date that parses to a year after 2023 is returned with the year
\* lowered by 100 and month, day and time of day unchanged; a date that parses
\* to a year up to 2023 is returned as parsed.
C1_CenturyCorrection ==
    (pc = "date_done" /\ resp.parsed.ok) =>
        LET p == resp.parsed.ts
            r == resp.out
        IN  /\ p.y > 2023 => r.y = p.y - 100 /\ r.m = p.m /\ r.d = p.d /\ r.h = p.h
            /\ p.y <= 2023 => r = p

C1_Witness ==
    /\ pc = "date_done"
    /\ resp.parsed.ok
    /\ resp.parsed.ts.y > 2023
    /\ resp.parsed.ts.m = 2 /\ resp.parsed.ts.d = 29
    /\ resp.out.y = resp.parsed.ts.y - 100

\* C2: after startup every Launch Date of the table is missing or has a year of
\* at most 2023.
C2_NoDateAfterCutoff ==
    pc = "serving" => \A i \in DOMAIN data : data[i].date = NaT \/ data[i].date.y <= 2023

\* C3: the rows the pie, the scatter and the heatmap are computed from are
\* exactly the rows of the table with a Launch Date whose year lies in the
\* validated range and, for a country other than 'All Countries', whose
\* Operator contains the country; no row without a date is among them, and
\* none at all when the range's start is after its end.
C3_FilteredRows ==
    (IsChartsRequest /\ resp.kind = "charts") =>
        LET c == resp.country
            s == resp.years[1]
            e == resp.years[2]
            want == SelectSeq(data, LAMBDA r :
                        /\ r.date # NaT
                        /\ s <= r.date.y /\ r.date.y <= e
                        /\ (c = AllCountries \/ (r.op # NaN /\ Occurs(r.op, c))))
        IN  /\ c = (IF req.country \in Range(allowed_countries)
                    THEN req.country ELSE AllCountries)
            /\ resp.fed.pie = want
            /\ resp.fed.scatter = want
            /\ resp.fed.heatmap = want
            /\ \A i \in DOMAIN resp.fed.pie : resp.fed.pie[i].date # NaT
            /\ s > e => resp.fed.pie = << >>

C3_Witness ==
    /\ IsChartsRequest /\ resp.kind = "charts"
    /\ resp.country = Italy
    /\ resp.years = << 1971, 1971 >>
    /\ Len(resp.fed.pie) = 1
    /\ \E i \in DOMAIN data : data[i].date = NaT
    /\ \E i \in DOMAIN data : data[i].date # NaT /\ data[i].date.y < 1971

\* C4: validate_year_range returns [min_allowed_year, max_allowed_year] when a bound
\* lies outside that range and the two bounds unchanged when both lie inside it,
\* also when the start is after the end; it never replaces one bound only.
C4_YearRange ==
    (/\ IsChartsRequest
     /\ ~req.years.none /\ Len(req.years.items) = 2
     /\ req.years.items[1].num /\ req.years.items[2].num) =>
        LET s == req.years.items[1].val
            e == req.years.items[2].val
            inside(v) == min_allowed_year <= v /\ v <= max_allowed_year
        IN  /\ resp.at # "validate_year_range"
            /\ resp.years = IF inside(s) /\ inside(e) THEN << s, e >>
                            ELSE << min_allowed_year, max_allowed_year >>

C4_Witness ==
    /\ IsChartsRequest
    /\ req.years = List(<< Num(1971), Num(1969) >>)
    /\ resp.years = << 1971, 1969 >>
    /\ min_allowed_year = 1969

\* C5: no validator raises, whatever value the request carries and whatever
\* the data.
C5_ValidatorsTotal ==
    ~(resp.kind = "raised" /\ resp.at \in {"validate_year_range", "validate_fail_input"})

\* C6: the heatmap's matrix has the distinct Mission Type values of the whole table
\* as row labels (the missing value being one when a row lacks its type) and the
\* distinct Outcome values of the whole table as column labels; a cell holds
\* the number of filtered rows with that type and outcome, 0 when there is none;
\* the cells add up to the number of filtered rows that have both.
C6_HeatmapMatrix ==
    (IsChartsRequest /\ resp.kind = "charts") =>
        LET hm == resp.out.heatmap
            df == resp.fed.heatmap
            types == { data[i].mtype : i \in DOMAIN data }
            outcomes == { data[i].outcome : i \in DOMAIN data }
        IN  /\ Range(hm.index) = types /\ Len(hm.index) = Cardinality(types)
            /\ Range(hm.columns) = outcomes /\ Len(hm.columns) = Cardinality(outcomes)
            /\ DOMAIN hm.cell = types \X outcomes
            /\ \A t \in types, o \in outcomes :
                 hm.cell[<<t, o>>] =
                     IF t = NaN THEN 0
                     ELSE Cardinality({ i \in DOMAIN df :
                                          df[i].mtype = t /\ df[i].outcome = o })
            /\ SumOver(hm.cell, DOMAIN hm.cell) =
                   Cardinality({ i \in DOMAIN df : df[i].mtype # NaN /\ df[i].outcome # NaN })

C6_Witness ==
    /\ IsChartsRequest /\ resp.kind = "charts"
    /\ Len(resp.fed.heatmap) < Len(data)
    /\ \E i \in DOMAIN resp.fed.heatmap : resp.fed.heatmap[i].mtype = NaN
    /\ \E t \in Range(resp.out.heatmap.index) :
         t # NaN /\ \A i \in DOMAIN resp.fed.heatmap : resp.fed.heatmap[i].mtype # t
    /\ \E k \in DOMAIN resp.out.heatmap.cell : resp.out.heatmap.cell[k] > 0

\* The number of allow-list entries the operator contains.
MatchCount(op) ==
    Cardinality({ k \in DOMAIN allowed_countries : Occurs(op, allowed_countries[k]) })

\* The failure rows of the table that match the validated category.
CategoryRows ==
    SelectSeq(data, LAMBDA r : Occurs(r.outcome, Fail) /\ Occurs(r.outcome, resp.country))

\* C7 as stated: the per-country counts add up to at least the number of
\* failure rows matching the category, and to exactly that number only when no
\* operator contains more than one country name.
C7_SumAtLeastRows ==
    (IsBarRequest /\ resp.kind = "bar") =>
        /\ SumSeq(resp.out.y) >= Len(CategoryRows)
        /\ SumSeq(resp.out.y) = Len(CategoryRows) =>
               \A i \in DOMAIN CategoryRows : MatchCount(CategoryRows[i].op) <= 1

\* C7 amended: the per-country counts add up to the number of (row, country
\* name) pairs in which the row's operator contains the name, over the failure
\* rows matching the category; that is at least the number of those rows whose
\* operator contains some country name, and exactly that number if and only if
\* no operator contains more than one.
C7_SumCountsMatches ==
    (IsBarRequest /\ resp.kind = "bar") =>
        LET rows == CategoryRows
            matches == [ i \in DOMAIN rows |-> MatchCount(rows[i].op) ]
            matched == Cardinality({ i \in DOMAIN rows : matches[i] >= 1 })
        IN  /\ resp.fed = rows
            /\ resp.out.x = allowed_countries
            /\ SumSeq(resp.out.y) = SumSeq(matches)
            /\ SumSeq(resp.out.y) >= matched
            /\ SumSeq(resp.out.y) = matched <=> \A i \in DOMAIN rows : matches[i] <= 1

C7_Witness ==
    /\ IsBarRequest /\ resp.kind = "bar"
    /\ \E i \in DOMAIN resp.fed : MatchCount(resp.fed[i].op) = 0
    /\ \E i \in DOMAIN resp.fed : MatchCount(resp.fed[i].op) = 2
    /\ SumSeq(resp.out.y) = 2

\* C8: no error of the filtering or the aggregation leaves get_charts_by_country.
C8_ErrorsCaught ==
    ~(IsChartsRequest /\ resp.kind = "raised" /\ resp.at = "country filter")

\* C9: the scatter has one point per distinct Launch Date of the filtered rows, and
\* the point's y is the number of filtered rows launched on the point's x.
C9_ScatterPoints ==
    (IsChartsRequest /\ resp.kind = "charts") =>
        LET sc == resp.out.scatter
            dates == Column(resp.fed.scatter, "date")
        IN  /\ Len(sc.x) = Len(sc.y)
            /\ Range(sc.x) = Range(dates) /\ Len(sc.x) = Cardinality(Range(dates))
            /\ \A i \in DOMAIN sc.x : sc.y[i] = Occurrences(dates, sc.x[i])

\* What the request req returns on the module-level values of snapshot v.
ResponseOn(v) ==
    CASE req.handler = "get_charts_by_country" ->
             ChartsResponse(v.data, v.min_allowed_year, v.max_allowed_year,
                            req.country, req.years)
      [] req.handler = "get_bar_chart" -> BarResponse(v.fail, v.allowed_fails, req.value)
      [] req.handler = "get_download" -> DownloadResponse(v.data, req.format)
      [] OTHER -> NoResponse

\* C10: after startup no request changes the table, the failure subset, the
\* allow-list of failures or the year range, so every request, wherever it comes
\* in a sequence of requests, returns what it returns on the values as loaded.
C10_RequestsReadOnly ==
    pc = "serving" =>
        /\ data = loaded.data
        /\ fail = loaded.fail
        /\ allowed_fails = loaded.allowed_fails
        /\ min_allowed_year = loaded.min_allowed_year
        /\ max_allowed_year = loaded.max_allowed_year
        /\ resp = ResponseOn(loaded)

C10_Witness ==
    /\ IsChartsRequest /\ resp.kind = "charts"
    /\ Len(resp.fed.heatmap) < Len(data)
    /\ data = loaded.data

====
